---- MODULE Spec2Model ----
(***************************************************************************)
(* Model of the recorded-interaction fixture pipeline of grctool:          *)
(*   scripts/sanitize_vcr_cassettes.py  (two-pass sanitizer)               *)
(*   scripts/convert_vcr_cassettes.py   (flat -> nested schema converter)  *)
(*                                                                         *)
(* Text is modelled as sequences of tokens.  A JSON text is a token        *)
(* sequence produced by Dumps; a URL is a sequence of one-token strings    *)
(* in which every decimal digit is a token of its own, so that             *)
(* str.replace works on digits exactly as it does on characters.           *)
(***************************************************************************)
EXTENDS Integers, Sequences, FiniteSets, TLC

VARIABLES
    files,        \* sanitizer: cassette_files[i] -> content of the file on disk
    orig,         \* sanitizer: content of every file when the current run began
    ORG_ID_MAP,   \* module global dict, as a sequence of [k, v] in insertion order
    USER_ID_MAP,  \* module global dict, as a sequence of [k, v] in insertion order
    pc,           \* sanitizer: position in main()
    idx,          \* sanitizer: index of the loop over cassette_files
    scanned,      \* sanitizer: files find_org_ids has returned from in this run
    runs,         \* sanitizer: number of runs of main() over this directory
    inProc,       \* sanitizer: number of runs of main() in the current process
    cfiles,       \* converter: sys.argv[i] -> content of the file on disk
    corig,        \* converter: content of every file when main() began
    cpc,          \* converter: position in main()
    cidx          \* converter: index of the loop over sys.argv[1:]

svars == <<files, orig, ORG_ID_MAP, USER_ID_MAP, pc, idx, scanned, runs, inProc>>
cvars == <<cfiles, corig, cpc, cidx>>
vars == <<files, orig, ORG_ID_MAP, USER_ID_MAP, pc, idx, scanned, runs, inProc,
          cfiles, corig, cpc, cidx>>

(***************************************************************************)
(* Bounds of the model                                                     *)
(***************************************************************************)
NumFiles == 2         \* fixture files in the collection
MaxInteractions == 2  \* interactions in the whole collection
MaxRuns == 2          \* runs of the sanitizer over the collection

(***************************************************************************)
(* Program constants                                                       *)
(***************************************************************************)
TEST_ORG_ID == 12345
TEST_USER_ID == 99999
ORG_ID_FIELDS == {"org_id", "org"}
USER_ID_FIELDS == <<"owner_id", "published_by_id", "user_id", "assignee_id",
                    "language_okay_updated_by_id", "infosec_program_id">>
EMAIL_FIELDS == {"email"}
NAME_FIELDS == {"first_name", "last_name", "display_name", "short_display_name",
                "audit_team_name"}
TEST_NAMES(key) ==
    CASE key = "first_name" -> "Test"
      [] key = "last_name" -> "User"
      [] key = "display_name" -> "Test User"
      [] key = "short_display_name" -> "TU"
      [] key = "audit_team_name" -> "Test Audit Team"
      [] OTHER -> "Test Value"

Range(s) == {s[i] : i \in 1..Len(s)}

(***************************************************************************)
(* JSON values.  Every value is a record of the same shape; an object is   *)
(* the sequence of its [k, v] items in document order, an array is the     *)
(* sequence of its items with k = "".                                      *)
(***************************************************************************)
JNull == [t |-> "null", n |-> 0, s |-> "", kv |-> <<>>]
JInt(i) == [t |-> "int", n |-> i, s |-> "", kv |-> <<>>]
JStr(str) == [t |-> "str", n |-> 0, s |-> str, kv |-> <<>>]
JObj(items) == [t |-> "obj", n |-> 0, s |-> "", kv |-> items]
JArr(items) == [t |-> "arr", n |-> 0, s |-> "", kv |-> items]
KV(key, val) == [k |-> key, v |-> val]
Item(val) == [k |-> "", v |-> val]

\* the strings of the model that contain an '@'
AtStrings == {"alice@corp.example", "test@example.com"}

(***************************************************************************)
(* Python dict as a sequence of [k, v] in insertion order                  *)
(***************************************************************************)
Keys(map) == [i \in 1..Len(map) |-> map[i].k]
KeySet(map) == {map[i].k : i \in 1..Len(map)}
Get(map, key) == (CHOOSE i \in 1..Len(map) : map[i].k = key)
\* d[key] = val : an existing key keeps its position
Put(map, key, val) ==
    IF key \in KeySet(map)
    THEN [i \in 1..Len(map) |-> IF map[i].k = key THEN KV(key, val) ELSE map[i]]
    ELSE Append(map, KV(key, val))
Lookup(map, key) == map[Get(map, key)].v

(***************************************************************************)
(* sanitize_value, sanitize_dict, sanitize_list.  The two global maps are  *)
(* threaded through the walk: every operator returns the sanitized value   *)
(* and the maps as the walk left them.                                     *)
(***************************************************************************)
\* the tests "value > 0" written "value != 0"
sanitize_value_nonzero(key, value, om, um) ==
    IF value.t = "null" THEN [val |-> value, om |-> om, um |-> um]
    ELSE IF key \in ORG_ID_FIELDS /\ value.t = "int" /\ value.n # 0
    THEN LET om2 == IF value.n \notin KeySet(om) THEN Put(om, value.n, TEST_ORG_ID) ELSE om
         IN [val |-> JInt(Lookup(om2, value.n)), om |-> om2, um |-> um]
    ELSE IF key \in Range(USER_ID_FIELDS) /\ value.t = "int" /\ value.n # 0
    THEN LET um2 == IF value.n \notin KeySet(um) THEN Put(um, value.n, TEST_USER_ID) ELSE um
         IN [val |-> JInt(Lookup(um2, value.n)), om |-> om, um |-> um2]
    ELSE IF key \in EMAIL_FIELDS /\ value.t = "str" /\ value.s \in AtStrings
    THEN [val |-> JStr("test@example.com"), om |-> om, um |-> um]
    ELSE IF key \in NAME_FIELDS /\ value.t = "str" /\ value.s # ""
    THEN [val |-> JStr(TEST_NAMES(key)), om |-> om, um |-> um]
    ELSE [val |-> value, om |-> om, um |-> um]

sanitize_value(key, value, om, um) ==
    IF value.t = "null" THEN [val |-> value, om |-> om, um |-> um]
    ELSE IF key \in ORG_ID_FIELDS /\ value.t = "int" /\ value.n > 0
    THEN LET om2 == IF value.n \notin KeySet(om) THEN Put(om, value.n, TEST_ORG_ID) ELSE om
         IN [val |-> JInt(Lookup(om2, value.n)), om |-> om2, um |-> um]
    ELSE IF key \in Range(USER_ID_FIELDS) /\ value.t = "int" /\ value.n > 0
    THEN LET um2 == IF value.n \notin KeySet(um) THEN Put(um, value.n, TEST_USER_ID) ELSE um
         IN [val |-> JInt(Lookup(um2, value.n)), om |-> om, um |-> um2]
    ELSE IF key \in EMAIL_FIELDS /\ value.t = "str" /\ value.s \in AtStrings
    THEN [val |-> JStr("test@example.com"), om |-> om, um |-> um]
    ELSE IF key \in NAME_FIELDS /\ value.t = "str" /\ value.s # ""
    THEN [val |-> JStr(TEST_NAMES(key)), om |-> om, um |-> um]
    ELSE [val |-> value, om |-> om, um |-> um]

\* the value a container item is replaced by, from the result d of the walk below it
Wrapped(tag, d) ==
    [val |-> [t |-> tag, n |-> 0, s |-> "", kv |-> d.val], om |-> d.om, um |-> d.um]
\* result[key] = r.val (result.append(r.val)), followed by the rest of the loop
Joined(h, r, rest) ==
    [val |-> <<KV(h.k, r.val)>> \o rest.val, om |-> rest.om, um |-> rest.um]

RECURSIVE sanitize_items(_, _, _, _), sanitize_item(_, _, _, _)
sanitize_rest(h, tl, inDict, r) == Joined(h, r, sanitize_items(tl, inDict, r.om, r.um))

\* one iteration of the loop of sanitize_dict (inDict) or sanitize_list (~inDict)
sanitize_item(h, inDict, om, um) ==
    IF h.v.t = "obj" THEN Wrapped("obj", sanitize_items(h.v.kv, TRUE, om, um))
    ELSE IF h.v.t = "arr" THEN Wrapped("arr", sanitize_items(h.v.kv, FALSE, om, um))
    ELSE IF inDict THEN sanitize_value(h.k, h.v, om, um)
    ELSE [val |-> h.v, om |-> om, um |-> um]

\* the loops of sanitize_dict and sanitize_list, in document order
sanitize_items(items, inDict, om, um) ==
    IF items = <<>> THEN [val |-> <<>>, om |-> om, um |-> um]
    ELSE sanitize_rest(Head(items), Tail(items), inDict,
                       sanitize_item(Head(items), inDict, om, um))

sanitize_dict(obj, om, um) ==
    IF obj.t = "obj" THEN Wrapped("obj", sanitize_items(obj.kv, TRUE, om, um))
    ELSE [val |-> obj, om |-> om, um |-> um]

sanitize_list(arr, om, um) == Wrapped("arr", sanitize_items(arr.kv, FALSE, om, um))

(***************************************************************************)
(* JSON text.  A token is [c, s, n]: "q" an unescaped double quote, "eq" a *)
(* double quote escaped once (backslash, quote), "eeq" escaped twice, "ws" *)
(* white space, "p" punctuation, "w" a run of other characters, "num" a    *)
(* maximal run of decimal digits with its value.                           *)
(***************************************************************************)
Q == [c |-> "q", s |-> "", n |-> 0]
EQ == [c |-> "eq", s |-> "", n |-> 0]
EEQ == [c |-> "eeq", s |-> "", n |-> 0]
WS == [c |-> "ws", s |-> "", n |-> 0]
P(str) == [c |-> "p", s |-> str, n |-> 0]
W(str) == [c |-> "w", s |-> str, n |-> 0]
Num(i) == [c |-> "num", s |-> "", n |-> i]

\* white space a style writes after ':' and ',' ; "compact" is separators=(',', ':')
Gap(style) == IF style = "compact" THEN <<>> ELSE <<WS>>
\* white space a style writes after '{' '[' and before '}' ']' ; "indent2" is indent=2
Pad(style) == IF style = "indent2" THEN <<WS>> ELSE <<>>

RECURSIVE Dumps(_, _), DumpItems(_, _, _)
\* json.dumps / json.dump of a value
Dumps(v, style) ==
    CASE v.t = "null" -> <<W("null")>>
      [] v.t = "int" -> IF v.n < 0 THEN <<P("-"), Num(-v.n)>> ELSE <<Num(v.n)>>
      [] v.t = "str" -> <<Q, W(v.s), Q>>
      [] v.t = "obj" -> IF v.kv = <<>> THEN <<P("{"), P("}")>>
                        ELSE <<P("{")>> \o Pad(style) \o DumpItems(v.kv, TRUE, style)
                             \o Pad(style) \o <<P("}")>>
      [] v.t = "arr" -> IF v.kv = <<>> THEN <<P("["), P("]")>>
                        ELSE <<P("[")>> \o Pad(style) \o DumpItems(v.kv, FALSE, style)
                             \o Pad(style) \o <<P("]")>>

DumpItems(items, inDict, style) ==
    (IF inDict THEN <<Q, W(Head(items).k), Q, P(":")>> \o Gap(style) ELSE <<>>)
    \o Dumps(Head(items).v, style)
    \o (IF Len(items) = 1 THEN <<>>
        ELSE <<P(",")>> \o Gap(style) \o DumpItems(Tail(items), inDict, style))

\* what the JSON encoder makes of the characters of a string it writes
Escape(toks) ==
    [i \in 1..Len(toks) |->
        IF toks[i].c = "q" THEN EQ
        ELSE IF toks[i].c = "eq" THEN EEQ
        ELSE toks[i]]

(***************************************************************************)
(* URLs: sequences of one-token strings, one token per decimal digit       *)
(***************************************************************************)
DigitChars == <<"0", "1", "2", "3", "4", "5", "6", "7", "8", "9">>
IsDigit(ch) == ch \in Range(DigitChars)

RECURSIVE Digits(_)
\* str(n) for n >= 0, as in an f-string
Digits(i) ==
    IF i < 10 THEN <<DigitChars[i + 1]>>
    ELSE Digits(i \div 10) \o <<DigitChars[(i % 10) + 1]>>

IsPrefix(p, s) == Len(p) <= Len(s) /\ SubSeq(s, 1, Len(p)) = p

RECURSIVE Replace(_, _, _)
\* str.replace(old, new): every non-overlapping occurrence, left to right
Replace(s, old, new) ==
    IF Len(s) < Len(old) THEN s
    ELSE IF IsPrefix(old, s)
    THEN new \o Replace(SubSeq(s, Len(old) + 1, Len(s)), old, new)
    ELSE <<Head(s)>> \o Replace(Tail(s), old, new)

OrgPath(i) == <<"/", "org", "/">> \o Digits(i) \o <<"/">>
OrgQuery(i) == <<"org_id=">> \o Digits(i)

RECURSIVE RewriteUrl(_, _)
\* the loop over list(ORG_ID_MAP.keys()) of sanitize_cassette
RewriteUrl(url, keys) ==
    IF keys = <<>> THEN url
    ELSE RewriteUrl(Replace(Replace(url, OrgPath(Head(keys)), OrgPath(TEST_ORG_ID)),
                            OrgQuery(Head(keys)), OrgQuery(TEST_ORG_ID)),
                    Tail(keys))

(***************************************************************************)
(* Fixture files of the sanitizer.                                         *)
(*   body: [present, json, style, val, text]  the value of response.body,  *)
(*         a string: a JSON text (json, written in style, parsing to val)  *)
(*         or another text;                                                *)
(*   interaction: [hasUrl, url, body];                                     *)
(*   file: [ok, style, meta, inter]  a JSON document written in style with *)
(*         the top-level items meta followed by "interactions": inter;     *)
(*         ~ok is the same text cut short before its last character.       *)
(* The fixtures of the model all have the key "interactions", and their    *)
(* interactions the keys "request" and "response"; "url" and "body" may be *)
(* absent (hasUrl, present), a body that is present is a string.           *)
(***************************************************************************)
NoBody == [present |-> FALSE, json |-> FALSE, style |-> "", val |-> JNull, text |-> ""]
TextBody(str) == [present |-> TRUE, json |-> FALSE, style |-> "", val |-> JNull, text |-> str]
JsonBody(v, st) == [present |-> TRUE, json |-> TRUE, style |-> st, val |-> v, text |-> ""]

\* the characters of a body string
BodyText(body) == IF body.json THEN Dumps(body.val, body.style) ELSE <<W(body.text)>>
\* Python truthiness of a body string
Truthy(body) == body.json \/ body.text # ""

\* json.dumps(sanitized, separators=(',', ':')) of the result r of the walk
Dumped(r) == [body |-> JsonBody(r.val, "compact"), om |-> r.om, um |-> r.um]

\* "except json.JSONDecodeError: return json.dumps(body_str)"
sanitize_body_string_dumps(body, om, um) ==
    IF body.json
    THEN Dumped(IF body.val.t = "obj" THEN sanitize_dict(body.val, om, um)
                ELSE IF body.val.t = "arr" THEN sanitize_list(body.val, om, um)
                ELSE [val |-> body.val, om |-> om, um |-> um])
    ELSE Dumped([val |-> JStr(body.text), om |-> om, um |-> um])

\* json.loads raises JSONDecodeError on a text that is no JSON text
sanitize_body_string(body, om, um) ==
    IF body.json
    THEN Dumped(IF body.val.t = "obj" THEN sanitize_dict(body.val, om, um)
                ELSE IF body.val.t = "arr" THEN sanitize_list(body.val, om, um)
                ELSE [val |-> body.val, om |-> om, um |-> um])
    ELSE [body |-> body, om |-> om, um |-> um]

\* interaction['request']['url'] = url and interaction['response']['body'] = b.body,
\* followed by the rest of the loop
Rewritten(h, url, b, rest) ==
    [inter |-> <<[hasUrl |-> h.hasUrl, url |-> url, body |-> b.body]>> \o rest.inter,
     om |-> rest.om, um |-> rest.um]

RECURSIVE sanitize_interactions(_, _, _)
sanitize_interaction(h, tl, om, b) ==
    Rewritten(h, IF h.hasUrl THEN RewriteUrl(h.url, Keys(om)) ELSE h.url, b,
              sanitize_interactions(tl, b.om, b.um))

\* the loop over cassette['interactions'] of sanitize_cassette: the URL is rewritten
\* with the keys the map holds before the body of the same interaction is sanitized
sanitize_interactions(inter, om, um) ==
    IF inter = <<>> THEN [inter |-> <<>>, om |-> om, um |-> um]
    ELSE sanitize_interaction(Head(inter), Tail(inter), om,
             IF Head(inter).body.present /\ Truthy(Head(inter).body)
             THEN sanitize_body_string(Head(inter).body, om, um)
             ELSE [body |-> Head(inter).body, om |-> om, um |-> um])

\* json.dump(cassette, f, indent=2) of the cassette with its interactions rewritten
Written(file, r) ==
    [file |-> [ok |-> TRUE, style |-> "indent2", meta |-> file.meta, inter |-> r.inter],
     om |-> r.om, um |-> r.um, raised |-> FALSE]

\* a file opened for writing before it is loaded is left empty when json.load raises
sanitize_cassette_open_first(file, om, um) ==
    IF ~file.ok
    THEN [file |-> [ok |-> FALSE, style |-> "indent2", meta |-> <<>>, inter |-> <<>>],
          om |-> om, um |-> um, raised |-> TRUE]
    ELSE Written(file, sanitize_interactions(file.inter, om, um))

\* sanitize_cassette: json.load raises on a text that is no JSON document,
\* before the file is opened for writing
sanitize_cassette(file, om, um) ==
    IF ~file.ok
    THEN [file |-> file, om |-> om, um |-> um, raised |-> TRUE]
    ELSE Written(file, sanitize_interactions(file.inter, om, um))

(***************************************************************************)
(* The text of a file, as find_org_ids reads it                            *)
(***************************************************************************)
UrlText(url) == [i \in 1..Len(url) |-> W(url[i])]

InteractionText(it, style) ==
    <<P("{")>> \o Pad(style)
    \o <<Q, W("request"), Q, P(":")>> \o Gap(style)
    \o (IF it.hasUrl
        THEN <<P("{")>> \o Pad(style) \o <<Q, W("url"), Q, P(":")>> \o Gap(style)
             \o <<Q>> \o UrlText(it.url) \o <<Q>> \o Pad(style) \o <<P("}")>>
        ELSE <<P("{"), P("}")>>)
    \o <<P(",")>> \o Gap(style)
    \o <<Q, W("response"), Q, P(":")>> \o Gap(style)
    \o (IF it.body.present
        THEN <<P("{")>> \o Pad(style) \o <<Q, W("body"), Q, P(":")>> \o Gap(style)
             \o <<Q>> \o Escape(BodyText(it.body)) \o <<Q>> \o Pad(style) \o <<P("}")>>
        ELSE <<P("{"), P("}")>>)
    \o Pad(style) \o <<P("}")>>

RECURSIVE InteractionsText(_, _)
InteractionsText(inter, style) ==
    IF inter = <<>> THEN <<>>
    ELSE IF Len(inter) = 1 THEN InteractionText(inter[1], style)
    ELSE InteractionText(inter[1], style) \o <<P(",")>> \o Gap(style)
         \o InteractionsText(Tail(inter), style)

FileText(file) ==
    <<P("{")>> \o Pad(file.style)
    \o (IF file.meta = <<>> THEN <<>>
        ELSE DumpItems(file.meta, TRUE, file.style) \o <<P(",")>> \o Gap(file.style))
    \o <<Q, W("interactions"), Q, P(":")>> \o Gap(file.style)
    \o (IF file.inter = <<>> THEN <<P("["), P("]")>>
        ELSE <<P("[")>> \o Pad(file.style) \o InteractionsText(file.inter, file.style)
             \o Pad(file.style) \o <<P("]")>>)
    \o Pad(file.style) \o <<P("}")>>

CutShort(t) == SubSeq(t, 1, Len(t) - 1)
RawText(file) == IF file.ok THEN FileText(file) ELSE CutShort(FileText(file))

RECURSIVE SkipWs(_, _)
\* \s* from position i: the position of the first token that is no white space
SkipWs(toks, i) ==
    IF i <= Len(toks) /\ toks[i].c = "ws" THEN SkipWs(toks, i + 1) ELSE i

\* (\d+) at position m: <<int(group 1)>>, or <<>> for no match
DigitsAt(toks, m) ==
    IF m <= Len(toks) /\ toks[m].c = "num" THEN <<toks[m].n>> ELSE <<>>
\* :\s*(\d+) at position j
ColonAt(toks, j) ==
    IF j <= Len(toks) /\ toks[j] = P(":") THEN DigitsAt(toks, SkipWs(toks, j + 1)) ELSE <<>>
\* re.match of  "field"\s*:\s*(\d+)  at position i
MatchAt(toks, i, field) ==
    IF i + 2 <= Len(toks) /\ toks[i] = Q /\ toks[i + 1] = W(field) /\ toks[i + 2] = Q
    THEN ColonAt(toks, SkipWs(toks, i + 3))
    ELSE <<>>

\* the positions of the text where the pattern of a field matches
MatchPositions(toks, field) == {i \in 1..Len(toks) : MatchAt(toks, i, field) # <<>>}

RECURSIVE InTextOrder(_, _, _)
\* the groups of the matches at the positions S, leftmost first
InTextOrder(toks, S, field) ==
    IF S = {} THEN <<>>
    ELSE MatchAt(toks, CHOOSE i \in S : \A j \in S : i <= j, field)
         \o InTextOrder(toks, S \ {CHOOSE i \in S : \A j \in S : i <= j}, field)

\* [int(m.group(1)) for m in re.finditer(rf'"{field}"\s*:\s*(\d+)', content)]
FindAll(toks, field) == InTextOrder(toks, MatchPositions(toks, field), field)

RECURSIVE RegisterAll(_, _, _)
\* for each match: if id > 0: MAP[id] = val
RegisterAll(map, ids, val) ==
    IF ids = <<>> THEN map
    ELSE RegisterAll(IF Head(ids) > 0 THEN Put(map, Head(ids), val) ELSE map,
                     Tail(ids), val)

RECURSIVE RegisterUsers(_, _, _)
\* for field in USER_ID_FIELDS: ...
RegisterUsers(um, fields, content) ==
    IF fields = <<>> THEN um
    ELSE RegisterUsers(RegisterAll(um, FindAll(content, Head(fields)), TEST_USER_ID),
                       Tail(fields), content)

\* the three loops of find_org_ids over the text of the file
find_in(content, om, um) ==
    [om |-> RegisterAll(RegisterAll(om, FindAll(content, "org_id"), TEST_ORG_ID),
                        FindAll(content, "org"), TEST_ORG_ID),
     um |-> RegisterUsers(um, USER_ID_FIELDS, content)]

find_org_ids(file, om, um) == find_in(RawText(file), om, um)

(***************************************************************************)
(* Input collections: a sequence of at most MaxInteractions interactions   *)
(* cut into NumFiles consecutive fixtures.                                 *)
(***************************************************************************)
SeqsUpTo(S, n) == UNION {[1..m -> S] : m \in 0..n}
Cuts(len, n) ==
    {c \in [0..n -> 0..len] :
        c[0] = 0 /\ c[n] = len /\ \A i \in 1..n : c[i - 1] <= c[i]}
Chunk(s, c, i) == SubSeq(s, c[i - 1] + 1, c[i])

HtmlBody == TextBody("<html>Error</html>")
OrgBody == JsonBody(JObj(<<KV("org_id", JInt(1))>>), "spaced")
NestedBody ==
    JsonBody(JObj(<<KV("data", JArr(<<Item(JObj(<<KV("org", JInt(7)),
                                                  KV("owner_id", JInt(3)),
                                                  KV("user_id", JInt(0)),
                                                  KV("org_id", JInt(-1)),
                                                  KV("email", JStr("alice@corp.example"))>>))>>))>>),
             "compact")
InteractionSet ==
    { [hasUrl |-> FALSE, url |-> <<>>, body |-> HtmlBody],
      [hasUrl |-> TRUE, url |-> OrgPath(1) \o <<"members", "?">> \o OrgQuery(1),
       body |-> OrgBody],
      [hasUrl |-> TRUE, url |-> OrgPath(7) \o <<"members">>, body |-> NestedBody] }

\* top-level items of a fixture beside "interactions"
MetaItems == <<KV("org_id", JInt(1)), KV("org", JInt(0))>>

\* at most one fixture of a collection has top-level items; it may be cut short
Fixture(inter, kind) ==
    [ok |-> kind # "truncated", style |-> "spaced",
     meta |-> IF kind = "plain" THEN <<>> ELSE MetaItems, inter |-> inter]

Collections ==
    { [i \in 1..NumFiles |->
          Fixture(Chunk(s, c, i), IF i = sp[1] THEN sp[2] ELSE "plain")] :
        <<s, c, sp>> \in
          { <<s, c, sp>> \in SeqsUpTo(InteractionSet, MaxInteractions)
                             \X [0..NumFiles -> 0..MaxInteractions]
                             \X ((0..NumFiles) \X {"meta", "truncated"}) :
              c \in Cuts(Len(s), NumFiles) } }

(***************************************************************************)
(* main() of the sanitizer                                                 *)
(***************************************************************************)
\* the first loop of main ended after its first iteration
main_after_find_once(i) == [pc |-> "pass2", idx |-> 1]

\* for cassette_path in cassette_files: find_org_ids(cassette_path) ; then pass 2
main_after_find(i) ==
    IF i < NumFiles THEN [pc |-> "pass1", idx |-> i + 1] ELSE [pc |-> "pass2", idx |-> 1]

SanInit ==
    /\ files \in Collections
    /\ orig = files
    /\ ORG_ID_MAP = <<>>
    /\ USER_ID_MAP = <<>>
    /\ pc = "pass1"
    /\ idx = 1
    /\ scanned = {}
    /\ runs = 1
    /\ inProc = 1

\* one iteration of the first loop of main: find_org_ids(cassette_files[idx])
Pass1Step ==
    /\ pc = "pass1"
    /\ \E r \in {find_org_ids(files[idx], ORG_ID_MAP, USER_ID_MAP)} :
          /\ ORG_ID_MAP' = r.om
          /\ USER_ID_MAP' = r.um
    /\ pc' = main_after_find(idx).pc
    /\ idx' = main_after_find(idx).idx
    /\ scanned' = scanned \union {idx}
    /\ UNCHANGED <<files, orig, runs, inProc>>

\* one iteration of the second loop of main: sanitize_cassette(cassette_files[idx]);
\* an exception leaves main
Pass2Step ==
    /\ pc = "pass2"
    /\ \E r \in {sanitize_cassette(files[idx], ORG_ID_MAP, USER_ID_MAP)} :
          /\ files' = [files EXCEPT ![idx] = r.file]
          /\ ORG_ID_MAP' = r.om
          /\ USER_ID_MAP' = r.um
          /\ pc' = IF r.raised THEN "failed"
                   ELSE IF idx < NumFiles THEN "pass2" ELSE "done"
          /\ idx' = IF ~r.raised /\ idx < NumFiles THEN idx + 1 ELSE idx
    /\ UNCHANGED <<orig, scanned, runs, inProc>>

\* main() is called again in the same process: the module globals are as it left them
MainAgain ==
    /\ pc \in {"done", "failed"}
    /\ runs < MaxRuns
    /\ pc' = "pass1"
    /\ idx' = 1
    /\ scanned' = {}
    /\ orig' = files
    /\ runs' = runs + 1
    /\ inProc' = inProc + 1
    /\ UNCHANGED <<files, ORG_ID_MAP, USER_ID_MAP>>

\* the script is started again: the module is loaded anew
NewProcess ==
    /\ pc \in {"done", "failed"}
    /\ runs < MaxRuns
    /\ pc' = "pass1"
    /\ idx' = 1
    /\ scanned' = {}
    /\ orig' = files
    /\ runs' = runs + 1
    /\ inProc' = 1
    /\ ORG_ID_MAP' = <<>>
    /\ USER_ID_MAP' = <<>>
    /\ UNCHANGED files

(***************************************************************************)
(* The converter.                                                          *)
(*   headers: a dict name -> value as a sequence of [k, v];                *)
(*   flat interaction: [req, resp], each with has, the set of its keys;    *)
(*   nested interaction: [request, response] as convert_interaction builds *)
(*   them; a request body is [isNull, s], None being [isNull |-> TRUE];    *)
(*   file: [fmt, flat, nested]  fmt "json" a flat cassette, "yaml" the     *)
(*   go-vcr document yaml.dump wrote, "text" anything json.load rejects.   *)
(***************************************************************************)
None == [isNull |-> TRUE, s |-> ""]
Str(str) == [isNull |-> FALSE, s |-> str]
NoInteraction ==
    [request |-> [body |-> None, form |-> <<>>, headers |-> <<>>, method |-> "", uri |-> ""],
     response |-> [body |-> [string |-> ""], code |-> 0, headers |-> <<>>]]

\* {k: [v] for k, v in headers_dict.items()}
convert_headers(headers_dict) ==
    [i \in 1..Len(headers_dict) |-> KV(headers_dict[i].k, <<headers_dict[i].v>>)]

\* the keys convert_interaction subscripts: a missing one raises KeyError
RequiredOfRequest == {"headers", "method", "url"}
RequiredOfResponse == {"body", "status_code", "headers"}

\* req.get("body", "") in the place of req.get("body", None)
convert_interaction_empty_default(json_interaction) ==
    IF ~(RequiredOfRequest \subseteq json_interaction.req.has
         /\ RequiredOfResponse \subseteq json_interaction.resp.has)
    THEN [raised |-> TRUE, val |-> NoInteraction]
    ELSE [raised |-> FALSE,
          val |-> [request |-> [body |-> Str(IF "body" \in json_interaction.req.has
                                             THEN json_interaction.req.body ELSE ""),
                                form |-> <<>>,
                                headers |-> convert_headers(json_interaction.req.headers),
                                method |-> json_interaction.req.method,
                                uri |-> json_interaction.req.url],
                   response |-> [body |-> [string |-> json_interaction.resp.body],
                                 code |-> json_interaction.resp.status_code,
                                 headers |-> convert_headers(json_interaction.resp.headers)]]]

convert_interaction(json_interaction) ==
    IF ~(RequiredOfRequest \subseteq json_interaction.req.has
         /\ RequiredOfResponse \subseteq json_interaction.resp.has)
    THEN [raised |-> TRUE, val |-> NoInteraction]
    ELSE [raised |-> FALSE,
          val |-> [request |-> [body |-> IF "body" \in json_interaction.req.has
                                         THEN Str(json_interaction.req.body) ELSE None,
                                form |-> <<>>,
                                headers |-> convert_headers(json_interaction.req.headers),
                                method |-> json_interaction.req.method,
                                uri |-> json_interaction.req.url],
                   response |-> [body |-> [string |-> json_interaction.resp.body],
                                 code |-> json_interaction.resp.status_code,
                                 headers |-> convert_headers(json_interaction.resp.headers)]]]

\* the output file opened and written interaction by interaction: the
\* interactions before the first that raises are on disk when it raises
convert_cassette_streaming(file) ==
    IF file.fmt # "json" THEN [raised |-> TRUE, file |-> file]
    ELSE IF \E i \in 1..Len(file.flat) : convert_interaction(file.flat[i]).raised
    THEN [raised |-> TRUE,
          file |-> [fmt |-> "yaml", flat |-> <<>>,
                    nested |-> [i \in 1..((CHOOSE j \in 1..Len(file.flat) :
                                              /\ convert_interaction(file.flat[j]).raised
                                              /\ \A m \in 1..(j - 1) :
                                                    ~convert_interaction(file.flat[m]).raised) - 1)
                                   |-> convert_interaction(file.flat[i]).val]]]
    ELSE [raised |-> FALSE,
          file |-> [fmt |-> "yaml", flat |-> <<>>,
                    nested |-> [i \in 1..Len(file.flat) |->
                                   convert_interaction(file.flat[i]).val]]]

\* convert_cassette: json.load, the list comprehension over the interactions, and
\* only then open(output_file, 'w') and yaml.dump; output_file is input_file
convert_cassette(file) ==
    IF file.fmt # "json" THEN [raised |-> TRUE, file |-> file]
    ELSE IF \E i \in 1..Len(file.flat) : convert_interaction(file.flat[i]).raised
    THEN [raised |-> TRUE, file |-> file]
    ELSE [raised |-> FALSE,
          file |-> [fmt |-> "yaml", flat |-> <<>>,
                    nested |-> [i \in 1..Len(file.flat) |->
                                   convert_interaction(file.flat[i]).val]]]

AcceptJson == <<KV("Accept", "application/json")>>
TwoHeaders == <<KV("Content-Type", "application/json"), KV("X-Request-Id", "r1")>>
FlatInteractionSet ==
    { [req |-> [has |-> {"method", "url", "headers"}, method |-> "GET",
                url |-> "/org/1/members", headers |-> AcceptJson, body |-> ""],
       resp |-> [has |-> {"status_code", "status", "headers", "body"}, status_code |-> 200,
                 status |-> "200 OK", headers |-> TwoHeaders, body |-> "{}"]],
      [req |-> [has |-> {"method", "url", "headers", "body"}, method |-> "POST",
                url |-> "/api", headers |-> <<>>, body |-> "payload"],
       resp |-> [has |-> {"status_code", "headers", "body"}, status_code |-> 404,
                 status |-> "", headers |-> AcceptJson, body |-> "<html>Error</html>"]],
      [req |-> [has |-> {"url", "headers"}, method |-> "",
                url |-> "/api", headers |-> AcceptJson, body |-> ""],
       resp |-> [has |-> {"status_code", "status", "headers", "body"}, status_code |-> 200,
                 status |-> "200 OK", headers |-> <<>>, body |-> "{}"]],
      [req |-> [has |-> {"method", "url", "headers"}, method |-> "GET",
                url |-> "/api", headers |-> AcceptJson, body |-> ""],
       resp |-> [has |-> {"status_code", "headers"}, status_code |-> 500,
                 status |-> "", headers |-> <<>>, body |-> ""]],
      [req |-> [has |-> {"method", "headers"}, method |-> "GET",
                url |-> "", headers |-> AcceptJson, body |-> ""],
       resp |-> [has |-> {"status_code", "headers", "body"}, status_code |-> 200,
                 status |-> "", headers |-> <<>>, body |-> "{}"]],
      [req |-> [has |-> {"method", "url"}, method |-> "GET",
                url |-> "/api", headers |-> <<>>, body |-> ""],
       resp |-> [has |-> {"status", "headers", "body"}, status_code |-> 0,
                 status |-> "200 OK", headers |-> <<>>, body |-> "{}"]] }

\* at most one file of the list is no JSON document
ConvCollections ==
    { [i \in 1..NumFiles |->
          [fmt |-> IF i = sp THEN "text" ELSE "json", nested |-> <<>>,
           flat |-> IF i = sp THEN <<>> ELSE Chunk(s, c, i)]] :
        <<s, c, sp>> \in
          { <<s, c, sp>> \in SeqsUpTo(FlatInteractionSet, MaxInteractions)
                             \X [0..NumFiles -> 0..MaxInteractions]
                             \X (0..NumFiles) :
              c \in Cuts(Len(s), NumFiles) } }

ConvInit ==
    /\ cfiles \in ConvCollections
    /\ corig = cfiles
    /\ cpc = "run"
    /\ cidx = 1

\* "try: convert_cassette(...) except Exception: continue" in the loop of main
main_after_convert_continue(raised, i) ==
    IF i < NumFiles THEN [cpc |-> "run", cidx |-> i + 1]
    ELSE [cpc |-> "done", cidx |-> i]

\* the loop of main has no exception handler: an exception of convert_cassette
\* leaves main, and the files after this one are not attempted
main_after_convert(raised, i) ==
    IF raised THEN [cpc |-> "crashed", cidx |-> i]
    ELSE IF i < NumFiles THEN [cpc |-> "run", cidx |-> i + 1]
    ELSE [cpc |-> "done", cidx |-> i]

\* one iteration of the loop of main over sys.argv[1:]: convert_cassette in place;
\* an exception leaves main
ConvStep ==
    /\ cpc = "run"
    /\ \E r \in {convert_cassette(cfiles[cidx])} :
          /\ cfiles' = [cfiles EXCEPT ![cidx] = r.file]
          /\ cpc' = main_after_convert(r.raised, cidx).cpc
          /\ cidx' = main_after_convert(r.raised, cidx).cidx
    /\ UNCHANGED corig

ConvIdle ==
    /\ cfiles = <<>>
    /\ corig = <<>>
    /\ cpc = "idle"
    /\ cidx = 0

Init == SanInit /\ ConvIdle

Next ==
    \/ Pass1Step /\ UNCHANGED cvars
    \/ Pass2Step /\ UNCHANGED cvars
    \/ MainAgain /\ UNCHANGED cvars
    \/ NewProcess /\ UNCHANGED cvars

Spec == Init /\ [][Next]_vars

\* the sanitizer at rest while the converter runs
SanIdle ==
    /\ files = <<>>
    /\ orig = <<>>
    /\ ORG_ID_MAP = <<>>
    /\ USER_ID_MAP = <<>>
    /\ pc = "idle"
    /\ idx = 0
    /\ scanned = {}
    /\ runs = 0
    /\ inProc = 0

ConvNext == ConvStep /\ UNCHANGED svars

ConvStart == ConvInit /\ SanIdle

ConvSpec == ConvStart /\ [][ConvNext]_vars

(***************************************************************************)
(* Observations of a collection, used to state the properties below        *)
(***************************************************************************)
FileIds == 1..NumFiles

RECURSIVE FieldInts(_)
\* the [k, n] of every integer item of the objects of a sequence of items, in
\* document order
FieldInts(items) ==
    IF items = <<>> THEN <<>>
    ELSE (IF Head(items).v.t = "int" THEN <<[k |-> Head(items).k, n |-> Head(items).v.n]>>
          ELSE FieldInts(Head(items).v.kv))
         \o FieldInts(Tail(items))

IsIdField(key) == key \in ORG_ID_FIELDS \/ key \in Range(USER_ID_FIELDS)
Substitute(key) == IF key \in ORG_ID_FIELDS THEN TEST_ORG_ID ELSE TEST_USER_ID

\* the integer fields of the JSON document a response body holds
BodyInts(body) == IF body.json THEN FieldInts(body.val.kv) ELSE <<>>
\* the integer fields of the fixture document outside the response bodies
MetaInts(file) == FieldInts(file.meta)

RECURSIVE BodiesInts(_)
BodiesInts(inter) ==
    IF inter = <<>> THEN <<>> ELSE BodyInts(Head(inter).body) \o BodiesInts(Tail(inter))

\* every integer field of a fixture, in document order
FileInts(file) == MetaInts(file) \o BodiesInts(file.inter)

Occurs(part, s) == \E i \in 1..Len(s) : IsPrefix(part, SubSeq(s, i, Len(s)))
\* the URL has the path segment /org/r/
HasOrgPath(url, r) == Occurs(OrgPath(r), url)
\* the URL has the query parameter org_id=r, r being the whole value
HasOrgQuery(url, r) ==
    \E i \in 1..Len(url) :
        /\ IsPrefix(OrgQuery(r), SubSeq(url, i, Len(url)))
        /\ LET after == i + Len(OrgQuery(r))
           IN after > Len(url) \/ ~IsDigit(url[after])

\* r occurs in the collection as an org field of a response body
OrgInBody(coll, r) ==
    \E f \in FileIds : \E i \in 1..Len(coll[f].inter) :
        \E x \in Range(BodyInts(coll[f].inter[i].body)) : x.k \in ORG_ID_FIELDS /\ x.n = r
\* r occurs in the collection in a request URL
OrgInUrl(coll, r) ==
    \E f \in FileIds : \E i \in 1..Len(coll[f].inter) :
        coll[f].inter[i].hasUrl
        /\ (HasOrgPath(coll[f].inter[i].url, r) \/ HasOrgQuery(coll[f].inter[i].url, r))

\* the real organization IDs of the input collections
RealOrgIds == {1, 7}

\* file f has been through sanitize_cassette in the current run
PassedRewrite(f) == pc = "done" \/ (pc \in {"pass2", "failed"} /\ f < idx)

\* C1: at the end of a first run, a real organization ID that was an org field of
\* a response body (and so was replaced there) occurs nowhere in the collection:
\* not as a body field, not as a /org/r/ path segment, not as an org_id=r parameter
C1_ConsistentSubstitution ==
    (pc = "done" /\ runs = 1) =>
        \A r \in RealOrgIds :
            OrgInBody(orig, r) => ~OrgInBody(files, r) /\ ~OrgInUrl(files, r)

\* C2: a file is written, and the rewrite pass is entered, only when find_org_ids
\* has been executed on every fixture of the collection
C2_DiscoveryBeforeRewrite ==
    (pc = "pass2" \/ files # orig) => scanned = FileIds

C2_Witness == pc = "pass2" /\ idx = 2 /\ files # orig /\ scanned = FileIds

\* C3: a complete run in a new process over the output of a complete run leaves
\* every fixture file as it was
C3_Idempotent ==
    (pc = "done" /\ runs >= 2 /\ inProc = 1) => files = orig

\* C4: at the start of every run both maps are empty
C4_MapsFreshPerRun ==
    (pc = "pass1" /\ scanned = {}) => ORG_ID_MAP = <<>> /\ USER_ID_MAP = <<>>

\* C5: after the rewrite of a fixture, every positive integer under an
\* organization-ID or user-ID field name, anywhere in the fixture document,
\* is the fixed substitute of that field
C5_WholeStructureRewritten ==
    \A f \in FileIds :
        PassedRewrite(f) =>
            \A x \in Range(FileInts(files[f])) :
                (IsIdField(x.k) /\ x.n > 0) => x.n = Substitute(x.k)

\* C6: once find_org_ids has scanned every fixture, every positive integer under
\* a recognized ID field of the collection, the fields of the JSON documents in
\* response bodies included, is a key of the corresponding map
C6_DiscoveryComplete ==
    (pc = "pass2" /\ idx = 1) =>
        \A f \in FileIds : \A x \in Range(FileInts(orig[f])) :
            /\ (x.k \in ORG_ID_FIELDS /\ x.n > 0) => x.n \in KeySet(ORG_ID_MAP)
            /\ (x.k \in Range(USER_ID_FIELDS) /\ x.n > 0) => x.n \in KeySet(USER_ID_MAP)

\* the integers <= 0 under recognized ID fields of the sequence before are, place by
\* place, those of the sequence after
NonPositiveKept(before, after) ==
    /\ Len(after) = Len(before)
    /\ \A i \in 1..Len(before) :
          (IsIdField(before[i].k) /\ before[i].n <= 0) => after[i] = before[i]

\* C7: every key of the two maps is a positive integer, and an integer <= 0 under
\* a recognized ID field is in every file what it was when the run began
C7_PositiveOnly ==
    /\ \A key \in KeySet(ORG_ID_MAP) \union KeySet(USER_ID_MAP) : key > 0
    /\ \A f \in FileIds : NonPositiveKept(FileInts(orig[f]), FileInts(files[f]))

C7_Witness ==
    /\ pc = "done"
    /\ KeySet(ORG_ID_MAP) # {} /\ KeySet(USER_ID_MAP) # {}
    /\ \E f \in FileIds :
          /\ files[f] # orig[f]
          /\ \E i \in 1..Len(BodiesInts(orig[f].inter)) :
                /\ BodiesInts(orig[f].inter)[i] = [k |-> "org_id", n |-> -1]
                /\ BodiesInts(files[f].inter)[i] = [k |-> "org_id", n |-> -1]
          /\ \E x \in Range(MetaInts(files[f])) : x = [k |-> "org", n |-> 0]

\* C8: a response body that is no JSON text raises no error (a run fails only at
\* a fixture whose document does not parse), is written back as it was, and the
\* JSON bodies of the same fixture are sanitized all the same
C8_NonJsonBodyUntouched ==
    /\ pc = "failed" => ~files[idx].ok
    /\ \A f \in FileIds :
          PassedRewrite(f) =>
              /\ Len(files[f].inter) = Len(orig[f].inter)
              /\ \A i \in 1..Len(orig[f].inter) :
                    IF orig[f].inter[i].body.json
                    THEN /\ files[f].inter[i].body.json
                         /\ files[f].inter[i].body.style = "compact"
                    ELSE files[f].inter[i].body = orig[f].inter[i].body

C8_Witness ==
    /\ pc = "done"
    /\ \E i \in 1..Len(orig[1].inter) :
          /\ i < Len(orig[1].inter)
          /\ orig[1].inter[i].body = HtmlBody
          /\ files[1].inter[i].body = HtmlBody
          /\ orig[1].inter[i + 1].body = OrgBody
          /\ files[1].inter[i + 1].body # OrgBody
    /\ files[2] # orig[2]

\* the response bodies of a fixture are those sanitize_body_string returns
BodiesSanitized(before, after) ==
    /\ Len(after.inter) = Len(before.inter)
    /\ \A i \in 1..Len(before.inter) :
          after.inter[i].body =
              IF before.inter[i].body.present /\ Truthy(before.inter[i].body)
              THEN sanitize_body_string(before.inter[i].body, <<>>, <<>>).body
              ELSE before.inter[i].body

\* C9: a fixture whose document does not parse fails the run and is not written;
\* every file holds what it held when the run began or its whole sanitized content
C9_WholeOrNothing ==
    /\ pc = "done" => \A f \in FileIds : orig[f].ok
    /\ \A f \in FileIds :
          /\ ~orig[f].ok => files[f] = orig[f]
          /\ \/ files[f] = orig[f]
             \/ /\ files[f].ok /\ files[f].style = "indent2"
                /\ files[f].meta = orig[f].meta
                /\ BodiesSanitized(orig[f], files[f])

C9_Witness ==
    /\ pc = "failed" /\ idx = 2
    /\ ~orig[2].ok /\ files[2] = orig[2]
    /\ files[1] # orig[1]

\* a flat interaction with every key convert_interaction subscripts
HasRequired(x) == RequiredOfRequest \subseteq x.req.has /\ RequiredOfResponse \subseteq x.resp.has

\* y is the nested form of the flat interaction x
NestedOf(x, y) ==
    /\ y.request.method = x.req.method
    /\ y.request.uri = x.req.url
    /\ y.response.code = x.resp.status_code
    /\ Len(y.request.headers) = Len(x.req.headers)
    /\ \A h \in 1..Len(x.req.headers) :
          y.request.headers[h] = [k |-> x.req.headers[h].k, v |-> <<x.req.headers[h].v>>]
    /\ Len(y.response.headers) = Len(x.resp.headers)
    /\ \A h \in 1..Len(x.resp.headers) :
          y.response.headers[h] = [k |-> x.resp.headers[h].k, v |-> <<x.resp.headers[h].v>>]
    /\ y.response.body = [string |-> x.resp.body]
    /\ y.request.form = <<>>
    /\ y.request.body = IF "body" \in x.req.has THEN Str(x.req.body) ELSE None

\* C10: convert_interaction does not raise on a flat interaction that has every
\* required field and yields its nested form (method, URI, status code kept,
\* every header value in a one-element sequence, the response body under
\* 'string', an empty form, the request body or None); a converted file holds
\* the nested forms of its interactions, in order
C10_NestedForm ==
    \A f \in FileIds :
        /\ \A i \in 1..Len(corig[f].flat) :
              HasRequired(corig[f].flat[i]) =>
                  /\ ~convert_interaction(corig[f].flat[i]).raised
                  /\ NestedOf(corig[f].flat[i], convert_interaction(corig[f].flat[i]).val)
        /\ cfiles[f].fmt = "yaml" =>
              /\ Len(cfiles[f].nested) = Len(corig[f].flat)
              /\ \A i \in 1..Len(corig[f].flat) :
                    NestedOf(corig[f].flat[i], cfiles[f].nested[i])

C10_Witness ==
    /\ cpc = "done"
    /\ \E f \in FileIds :
          /\ cfiles[f].fmt = "yaml"
          /\ Len(cfiles[f].nested) = 2
          /\ cfiles[f].nested[1].request.body = None
          /\ cfiles[f].nested[1].request.headers = <<KV("Accept", <<"application/json">>)>>
          /\ cfiles[f].nested[2].request.body = Str("payload")

\* C11: a converted file keeps every field of its flat interactions: the status
\* text of a flat response that has one is the 'status' of the nested response
C11_StatusTextKept ==
    \A f \in FileIds :
        cfiles[f].fmt = "yaml" =>
            \A i \in 1..Len(corig[f].flat) :
                "status" \in corig[f].flat[i].resp.has =>
                    /\ "status" \in DOMAIN cfiles[f].nested[i].response
                    /\ cfiles[f].nested[i].response.status = corig[f].flat[i].resp.status

\* a file convert_cassette converts: a JSON document whose interactions all have
\* the required fields
Convertible(file) ==
    file.fmt = "json" /\ \A i \in 1..Len(file.flat) : HasRequired(file.flat[i])
\* convert_cassette has been called on file f
Attempted(f) == f < cidx \/ (f = cidx /\ cpc \in {"done", "crashed"})

\* C12: a fixture with an interaction that lacks a required field makes
\* convert_cassette raise (main ends crashed at that file) and holds its original
\* content: the content of a file changes only when all of it is converted
C12_FailedFileKept ==
    \A f \in FileIds :
        /\ (Attempted(f) /\ ~Convertible(corig[f])) =>
              /\ cpc = "crashed" /\ cidx = f
              /\ cfiles[f] = corig[f]
        /\ cfiles[f] # corig[f] =>
              /\ Convertible(corig[f])
              /\ cfiles[f].fmt = "yaml"
              /\ Len(cfiles[f].nested) = Len(corig[f].flat)

C12_Witness ==
    /\ cpc = "crashed" /\ cidx = 2
    /\ cfiles[1].fmt = "yaml"
    /\ Len(corig[2].flat) = 2
    /\ HasRequired(corig[2].flat[1]) /\ ~HasRequired(corig[2].flat[2])
    /\ cfiles[2] = corig[2]

\* C13 as claimed: when main has ended, every file of the list that
\* convert_cassette converts has been converted, a failure of an earlier file
\* notwithstanding
C13_BatchContinues ==
    cpc \in {"done", "crashed"} =>
        \A f \in FileIds : Convertible(corig[f]) => cfiles[f].fmt = "yaml"

\* C13 as the code has it: the first file that fails ends the batch; the files
\* before it are converted, the file itself and every file after it in the list
\* hold their original content, and no file after a failing one is ever converted
C13_FirstFailureEndsBatch ==
    /\ cpc = "crashed" =>
          /\ ~Convertible(corig[cidx])
          /\ \A f \in FileIds : f < cidx => cfiles[f].fmt = "yaml"
          /\ \A f \in FileIds : f >= cidx => cfiles[f] = corig[f]
    /\ \A f \in FileIds :
          cfiles[f] # corig[f] => \A g \in FileIds : g < f => Convertible(corig[g])

C13_Witness ==
    /\ cpc = "crashed" /\ cidx = 1
    /\ ~Convertible(corig[1])
    /\ Convertible(corig[2]) /\ Len(corig[2].flat) > 0
    /\ cfiles[2] = corig[2]

\* the digit d of the character ch
DigitVal(ch) == CHOOSE d \in 0..9 : DigitChars[d + 1] = ch

RECURSIVE ValueAt(_, _, _)
\* the number written by the maximal run of digits of url that starts at place i
ValueAt(url, i, acc) ==
    IF i > Len(url) \/ ~IsDigit(url[i]) THEN acc
    ELSE ValueAt(url, i + 1, acc * 10 + DigitVal(url[i]))

RECURSIVE QueryValues(_)
\* the values of the org_id= parameters of a URL, left to right
QueryValues(url) ==
    IF url = <<>> THEN <<>>
    ELSE IF Head(url) = "org_id=" /\ Len(url) > 1 /\ IsDigit(url[2])
    THEN <<ValueAt(url, 2, 0)>> \o QueryValues(Tail(url))
    ELSE QueryValues(Tail(url))

\* each parameter value of the rewritten URL is the value it had or the substitute,
\* and is the value it had when that value is no key of the map
WholeValuesOnly(before, after, keys) ==
    /\ Len(after) = Len(before)
    /\ \A j \in 1..Len(before) :
          /\ after[j] \in {before[j], TEST_ORG_ID}
          /\ before[j] \notin keys => after[j] = before[j]

\* C14: after the rewrite loop of sanitize_cassette every org_id=<n> parameter of a
\* request URL is unchanged when n is no key of the organization-ID map, and reads
\* exactly org_id=<TEST_ORG_ID> when n is a key: no digits of the old value or of
\* the substitute are left behind it
C14_WholeIdentifiersOnly ==
    \A f \in FileIds :
        PassedRewrite(f) =>
            \A i \in 1..Len(orig[f].inter) :
                orig[f].inter[i].hasUrl =>
                    WholeValuesOnly(QueryValues(orig[f].inter[i].url),
                                    QueryValues(files[f].inter[i].url),
                                    KeySet(ORG_ID_MAP))

============================================================================
